---- MODULE Spec2Model ----
(***************************************************************************)
(* Chat backends of infomed-ai-backend: the Firebase chat handler          *)
(* (src/chat.js), its translate-capable variant (src/server.cjs), the      *)
(* Express server (src/server.js) and the minimal echo server; and the     *)
(* Netlify function that enriches patient guidance (src/ai_enhance.js).    *)
(* One request is followed from the handler's entry to its response; the   *)
(* provider adapters' outbound calls resolve nondeterministically.         *)
(*                                                                         *)
(* Strings the code inspects character by character (the message, the      *)
(* provider replies) are sequences of one-character strings; strings the   *)
(* code only compares are TLA+ strings.  A JavaScript value is a record    *)
(* with a type tag t.                                                      *)
(***************************************************************************)
EXTENDS Integers, Sequences, FiniteSets, TLC

VARIABLES
    variant,      \* which handler serves the request
    body,         \* req.body: message, specialty, prefer.lang, prefer.provider
    keys,         \* the providers whose API key is configured (non-empty)
    pc,           \* position of the handler
    message,      \* local: the message string
    targetLang,   \* local: resolved target language
    translateIntent, \* local (translate variant): the message asks for a translation
    translateTarget, \* local (translate variant): language to translate into
    system,       \* local: the system directive
    tryOrder,     \* local: providers to try, in order
    idx,          \* position of the for-loop in tryOrder (1-based)
    text,         \* local: text of the reply
    used,         \* local: provider that produced text, or Null
    lastErr,      \* local: last error caught in the loop, or Null
    provider,     \* local (Express server): the selected provider
    calls,        \* adapter invocations of this request, in order; fetch tells
                  \* whether the invocation issued its outbound call
    res,          \* responses sent, in order
    event,        \* (ai_enhance) the Netlify event: httpMethod and body
    enhanced      \* (ai_enhance) local: the enriched text, or null

vars == <<variant, body, keys, pc, message, targetLang, translateIntent,
          translateTarget, system, tryOrder, idx, text, used, lastErr, provider,
          calls, res, event, enhanced>>
input == <<variant, body, keys, event>>
langVars == <<targetLang, translateIntent, translateTarget, system>>
loopVars == <<tryOrder, idx, text, used, lastErr>>
chatVars == <<message, langVars, loopVars, provider>>

----------------------------------------------------------------------------
(* Bounds of the model *)

\* longest message drawn over Alphabet
MaxMsgLen == 2

----------------------------------------------------------------------------
(* JavaScript values *)

Null == [t |-> "null"]
Undefined == [t |-> "undefined"]
\* a string the code reads character by character
Str(s) == [t |-> "string", v |-> s]
\* a string the code only compares or interpolates
Word(w) == [t |-> "string", w |-> w]
Num(n) == [t |-> "number", v |-> n]
IsUndef(v) == v.t = "undefined"
IsNull(v) == v.t = "null"

\* !!v
Truthy(v) ==
    CASE v.t = "string" -> IF "w" \in DOMAIN v THEN v.w # "" ELSE v.v # <<>>
      [] v.t = "number" -> v.v # 0
      [] v.t = "array" -> TRUE
      [] OTHER -> FALSE

\* v.toString() of a character string or a number (only single digits occur)
DigitChar(n) == CASE n = 0 -> "0" [] n = 7 -> "7" [] OTHER -> "9"
toString(v) == IF v.t = "number" THEN <<DigitChar(v.v)>> ELSE v.v

----------------------------------------------------------------------------
(* Characters *)

Lower ==
    {"a","b","c","d","e","f","g","h","i","j","k","l","m",
     "n","o","p","q","r","s","t","u","v","w","x","y","z"}
\* \w of a regular expression without the u flag
WordChars == Lower \cup {"D", "0", "7", "9", "_"}
WhiteSpace == {" ", "\n"}

\* c.toLowerCase() of one character
LowerChar(c) == CASE c = "D" -> "d" [] c = "Ñ" -> "ñ" [] OTHER -> c
toLowerCase(s) == [i \in 1..Len(s) |-> LowerChar(s[i])]

\* s.trim()
RECURSIVE TrimLeft(_)
TrimLeft(s) ==
    IF s # <<>> /\ Head(s) \in WhiteSpace THEN TrimLeft(Tail(s)) ELSE s
RECURSIVE TrimRight(_)
TrimRight(s) ==
    IF s # <<>> /\ s[Len(s)] \in WhiteSpace
    THEN TrimRight(SubSeq(s, 1, Len(s) - 1)) ELSE s
Trim(s) == TrimRight(TrimLeft(s))

\* \b holds between positions i-1 and i of s (1 <= i <= Len(s)+1)
IsWordAt(s, i) == i >= 1 /\ i <= Len(s) /\ s[i] \in WordChars
Boundary(s, i) == IsWordAt(s, i - 1) # IsWordAt(s, i)

\* the literal w occurs in s at position i
OccursAt(s, w, i) ==
    /\ i >= 1 /\ i + Len(w) - 1 <= Len(s)
    /\ \A k \in 1..Len(w) : s[i + k - 1] = w[k]

\* /\bw\b/ matches somewhere in s
MatchesWord(s, w) ==
    \E i \in 1..Len(s) :
        OccursAt(s, w, i) /\ Boundary(s, i) /\ Boundary(s, i + Len(w))

----------------------------------------------------------------------------
(* Language helpers *)

\* the class [áéíóúñü¿¡] under the i flag
AccentChars == {"á","é","í","ó","ú","ñ","ü","¿","¡","Á","É","Í","Ó","Ú","Ñ","Ü"}

\* the alternatives of the regular expression `common`
CommonWords ==
    { <<"e","l">>, <<"l","a">>, <<"l","o","s">>, <<"l","a","s">>, <<"u","n">>,
      <<"u","n","a">>, <<"d","e">>, <<"d","e","l">>, <<"a","l">>, <<"q","u","e">>,
      <<"y">>, <<"p","a","r","a">>, <<"p","o","r">>, <<"c","o","n">>, <<"s","i","n">>,
      <<"c","ó","m","o">>, <<"q","u","é">>, <<"c","u","á","n","d","o">>,
      <<"d","ó","n","d","e">>, <<"p","o","r","q","u","e">>, <<"t","e","n","g","o">>,
      <<"d","o","l","o","r">>, <<"n","e","u","r","o","p","a","t","í","a">>,
      <<"d","i","a","b","é","t","i","c","a">>, <<"s","í","n","t","o","m","a","s">> }

hasAccent(s) == \E i \in 1..Len(s) : s[i] \in AccentChars
common(s) == \E w \in CommonWords : MatchesWord(toLowerCase(s), w)

isSpanish(s) == hasAccent(s) \/ common(s)

\* the directive: the fixed preamble, the language sentence, the specialty
buildDirective(lang, specialty) ==
    [mode |-> "educational",
     lang |-> IF lang = "es" THEN "es" ELSE "en",
     specialty |-> IF specialty # "" THEN specialty ELSE "General"]

----------------------------------------------------------------------------
(* Requests and configuration *)

Providers == {"openai", "gemini", "anthropic"}
Variants == {"firebase", "translate", "express", "echo"}

Alphabet == {"D", "e", "ñ"}
RECURSIVE SeqsUpTo(_)
SeqsUpTo(n) ==
    IF n = 0 THEN {<<>>}
    ELSE LET shorter == SeqsUpTo(n - 1)
         IN shorter \cup {Append(s, c) : s \in {t \in shorter : Len(t) = n - 1}, c \in Alphabet}

\* messages with a translate or define request
IntentMessages ==
    { <<"d","e","f","i","n","e"," ","x">>,
      <<"d","e","f","i","n","e","d">>,
      <<"D","e","f","i","n","i","r"," ","l","a"," ","t","o","s">> }

MessageValues ==
    {Undefined, Num(7)} \cup {Str(s) : s \in SeqsUpTo(MaxMsgLen) \cup IntentMessages}
SpecialtyValues == {Undefined, Word("Cardiology")}
LangValues == {Undefined, Word("en"), Word("es"), Word("fr")}
ProviderValues ==
    {Undefined, Num(7)} \cup
    {Word(w) : w \in {"auto", "openai", "anthropic", "gemini", "GEMINI", "mistral"}}

Bodies ==
    [message : MessageValues, specialty : SpecialtyValues,
     lang : LangValues, provider : ProviderValues]

\* w.toLowerCase() of a string the code only compares
LowerWord(w) == IF w = "GEMINI" THEN "gemini" ELSE w

----------------------------------------------------------------------------
(* Errors and provider replies *)

Error(msg) == [t |-> "error", name |-> "Error", message |-> msg]
TypeError(msg) == [t |-> "error", name |-> "TypeError", message |-> msg]
\* String(e)
ErrString(e) == e.name \o ": " \o e.message

KeyName(p) ==
    CASE p = "openai" -> "OPENAI_API_KEY"
      [] p = "anthropic" -> "ANTHROPIC_API_KEY"
      [] p = "gemini" -> "GEMINI_API_KEY"
MissingKeyError(p) == Error(KeyName(p) \o " missing")

\* the error an adapter throws on a reply that is not 2xx
StatusLabel(p) ==
    CASE p = "openai" -> "OpenAI" [] p = "anthropic" -> "Claude" [] p = "gemini" -> "Gemini"
HttpError(p) == Error(StatusLabel(p) \o " 500: overloaded")
\* the error fetch rejects with
NetworkError == TypeError("fetch failed")

\* what a 2xx reply of each provider may hold where the adapter looks for text
OpenAIPayloads ==
    {Undefined, Str(<<" ">>), Str(<<" ","o","k">>)}
ClaudePayloads ==
    {Undefined,
     [t |-> "blocks", v |-> <<[type |-> "text", text |-> Str(<<"h","i","\n">>)],
                              [type |-> "text", text |-> Str(<<"y","o">>)]>>],
     [t |-> "blocks", v |-> <<[type |-> "tool_use", text |-> Undefined]>>]}
GeminiPayloads ==
    {Undefined, [t |-> "parts", v |-> <<Str(<<"a">>), Undefined, Str(<<"b"," ">>)>>],
     [t |-> "parts", v |-> <<Undefined>>]}
Payloads(p) ==
    CASE p = "openai" -> OpenAIPayloads
      [] p = "anthropic" -> ClaudePayloads
      [] p = "gemini" -> GeminiPayloads

\* j.choices?.[0]?.message?.content?.trim() || ''
OpenAIText(content) == IF IsUndef(content) THEN <<>> ELSE Trim(content.v)

\* the first content block's text, trimmed
ClaudeText(content) ==
    IF IsUndef(content) \/ content.v = <<>> THEN <<>>
    ELSE LET block == content.v[1]
         IN IF block.type = "text"
            THEN (IF Truthy(block.text) THEN Trim(block.text.v) ELSE <<>>)
            ELSE IF Truthy(block.text) THEN Trim(block.text.v) ELSE <<>>

\* parts.map(p => p.text || '').join('')
RECURSIVE JoinParts(_)
JoinParts(parts) ==
    IF parts = <<>> THEN <<>>
    ELSE (IF Truthy(Head(parts)) THEN Head(parts).v ELSE <<>>) \o JoinParts(Tail(parts))
GeminiText(parts) ==
    IF IsUndef(parts) THEN <<>>
    ELSE LET joined == JoinParts(parts.v)
         IN Trim(IF joined # <<>> THEN joined
                 ELSE IF Truthy(parts.v[1]) THEN parts.v[1].v ELSE <<>>)

\* the text an adapter of chat.js returns for a 2xx reply
AdapterText(p, payload) ==
    CASE p = "openai" -> OpenAIText(payload)
      [] p = "anthropic" -> ClaudeText(payload)
      [] p = "gemini" -> GeminiText(payload)

----------------------------------------------------------------------------
(* Decisions of the Firebase chat handler (src/chat.js) *)

\* (body.message || '').toString()
MessageOf(b) == IF Truthy(b.message) THEN toString(b.message) ELSE <<>>

\* (body.specialty || 'General').toString()
SpecialtyOf(b) == IF Truthy(b.specialty) THEN b.specialty.w ELSE "General"

\* variant: an explicit en or es stands, the detector decides otherwise
ChatTargetLang_explicitWins(lang, msg) ==
    IF lang = Word("es") THEN "es"
    ELSE IF lang = Word("en") THEN "en"
    ELSE IF isSpanish(msg) THEN "es" ELSE "en"

\* variant: whatever prefer.lang holds is passed through
ChatTargetLang_passThrough(lang, msg) ==
    IF Truthy(lang) THEN lang.w ELSE IF isSpanish(msg) THEN "es" ELSE "en"

\* honor the client toggle; if English but the message looks Spanish, switch
ChatTargetLang(lang, msg) ==
    LET chosen == IF lang = Word("es") THEN "es" ELSE "en"
    IN IF chosen = "en" /\ isSpanish(msg) THEN "es" ELSE chosen

\* (prefer.provider || 'auto').toLowerCase() throws on a truthy non-string
ProviderPrefThrows(b) == Truthy(b.provider) /\ b.provider.t # "string"
ProviderPref(b) == IF Truthy(b.provider) THEN LowerWord(b.provider.w) ELSE "auto"
NotAFunction == TypeError("(prefer.provider || \"auto\").toLowerCase is not a function")

\* variant: the order of the Express server (Anthropic ahead of Gemini)
AutoOrder_anthropicFirst(ks) ==
    LET present == SelectSeq(<<"openai", "anthropic", "gemini">>, LAMBDA p : p \in ks)
    IN IF present = <<>> THEN <<"gemini", "openai", "anthropic">> ELSE present

\* the order for 'auto', from the keys that exist
AutoOrder(ks) ==
    LET present == SelectSeq(<<"openai", "gemini", "anthropic">>, LAMBDA p : p \in ks)
    IN IF present = <<>> THEN <<"gemini", "openai", "anthropic">> ELSE present

\* variant: an explicit preference first, then the remaining configured providers
TryOrder_thenOthers(pref, ks) ==
    IF pref = "auto" THEN AutoOrder(ks)
    ELSE <<pref>> \o SelectSeq(AutoOrder(ks), LAMBDA p : p # pref)

TryOrder(pref, ks) == IF pref = "auto" THEN AutoOrder(ks) ELSE <<pref>>

\* variant: no guard, the adapter is called with whatever key there is
KeyMissing_unchecked(p, ks) == FALSE

\* variant: only the OpenAI key is tested
KeyMissing_openaiOnly(p, ks) == p = "openai" /\ p \notin ks

\* the guard before each adapter call
KeyMissing(p, ks) == p \notin ks

\* variant: `used` is assigned before the awaited call settles
UsedAfterThrow_assigned(u, p) == Word(p)

\* `used` after an iteration that threw: the catch block leaves it alone
UsedAfterThrow(u, p) == u

\* variant: the first error caught is kept
LastErrAfter_first(prev, e) == IF IsNull(prev) THEN e ELSE prev

\* `lastErr` after the catch block caught e
LastErrAfter(prev, e) == e

\* variant: an empty text counts as no answer
NoneSucceeded_emptyText(u, txt) == txt = <<>>

\* the test after the loop: no provider was used
NoneSucceeded(u, txt) == ~Truthy(u)

\* variant: no break, the loop goes on to the next provider
AfterReturn_continue(i, order) == i + 1

\* where the for-loop stands after an adapter returned (break)
AfterReturn(i, order) == Len(order) + 1
\* variant: a provider that failed is tried again (up to four calls in all)
AfterFailure_retry(i, order) == IF Len(calls) < 4 THEN i ELSE i + 1

\* where the for-loop stands after an iteration that threw or matched no branch
AfterFailure(i, order) == i + 1

\* the fixed apology (its typographic apostrophe written as ')
FallbackText(lang) ==
    IF lang = "es"
    THEN Word("No pude contactar a los servicios de IA en este momento. Intente de nuevo o toque 'Inicio' para ver contenido de referencia.")
    ELSE Word("I couldn't reach any AI providers right now. Please try again or tap Home to view reference content.")

\* String(lastErr || '')
LastErrString(e) == IF IsNull(e) THEN "" ELSE ErrString(e)

ValidationResponse(msg) == [status |-> 400, body |-> [error |-> msg]]
FallbackResponse(lang, e) ==
    [status |-> 200,
     body |-> [text |-> FallbackText(lang), provider |-> "fallback",
               error |-> LastErrString(e)]]
ChatSuccessResponse(txt, p, lang) ==
    [status |-> 200,
     body |-> [text |-> Str(txt), provider |-> p, ms |-> "elapsed", lang |-> lang]]
\* variant: the outer catch answers with a server error, as the Express server does
ErrorResponse_500(e) ==
    [status |-> 500,
     body |-> [text |-> Word("I hit an unexpected error. Please try again in a moment."),
               provider |-> "error", ms |-> "elapsed", error |-> ErrString(e)]]

ErrorResponse(e) ==
    [status |-> 200,
     body |-> [text |-> Word("I hit an unexpected error. Please try again in a moment."),
               provider |-> "error", ms |-> "elapsed", error |-> ErrString(e)]]

----------------------------------------------------------------------------
(* Decisions of the translate-capable variant (src/server.cjs) *)

\* the literal alternatives of the translate-intent pattern
IntentWords ==
    { <<"t","r","a","n","s","l","a","t","e">>, <<"t","r","a","d","u","c","e">>,
      <<"t","r","a","d","u","c","c","i","ó","n">>,
      <<"q","u","é"," ","s","i","g","n","i","f","i","c","a">>,
      <<"q","u","e"," ","s","i","g","n","i","f","i","c","a">>,
      <<"d","e","f","i","n","e">>, <<"d","e","f","i","n","i","r">> }

\* /\bwhat does .* mean\b/
WhatDoesMean(m) ==
    LET what == <<"w","h","a","t"," ","d","o","e","s"," ">>
        mean == <<" ","m","e","a","n">>
    IN \E i \in 1..Len(m), j \in 1..Len(m) :
        /\ OccursAt(m, what, i) /\ Boundary(m, i)
        /\ j >= i + Len(what)
        /\ OccursAt(m, mean, j) /\ Boundary(m, j + Len(mean))
        /\ \A k \in (i + Len(what))..(j - 1) : m[k] # "\n"

\* the translate-intent pattern, tested on the lower-cased message
TranslateIntent(msg) ==
    LET m == toLowerCase(msg)
    IN (\E w \in IntentWords : MatchesWord(m, w)) \/ WhatDoesMean(m)

\* language routing: an explicit en/es stands, otherwise the detector decides
TranslateTargetLang(lang, msg) ==
    IF lang # Word("es") /\ lang # Word("en")
    THEN (IF isSpanish(msg) THEN "es" ELSE "en")
    ELSE IF lang = Word("es") THEN "es" ELSE "en"

\* variant: a translation always goes to the other language
TranslateTarget_alwaysFlip(lang, msg, intent) ==
    IF intent
    THEN IF isSpanish(msg) THEN "en" ELSE "es"
    ELSE TranslateTargetLang(lang, msg)

\* the language to translate into
TranslateTarget(lang, msg, intent) ==
    IF intent
    THEN IF lang = Word("es") THEN "es"
         ELSE IF lang = Word("en") THEN "en"
         ELSE IF isSpanish(msg) THEN "en" ELSE "es"
    ELSE TranslateTargetLang(lang, msg)

\* the system directive: the translator-only one, or the educational one
TranslateSystem(intent, target, lang, specialty) ==
    IF intent
    THEN [mode |-> "translator", lang |-> IF target = "es" THEN "es" ELSE "en"]
    ELSE buildDirective(lang, specialty)

TranslateSuccessResponse(txt, p, intent, target, lang) ==
    [status |-> 200,
     body |-> [text |-> Str(txt), provider |-> p, ms |-> "elapsed",
               lang |-> IF intent THEN target ELSE lang,
               mode |-> IF intent THEN "translate" ELSE "chat"]]

----------------------------------------------------------------------------
(* Decisions of the Express server (src/server.js) and the echo server *)

\* variant: only the type of the message is tested
ExpressMessageInvalid_typeOnly(b) == b.message.t # "string"

\* !message || typeof message !== "string"
ExpressMessageInvalid(b) == ~Truthy(b.message) \/ b.message.t # "string"

\* prefer.lang || "en"
ExpressLang(b) == IF Truthy(b.lang) THEN b.lang.w ELSE "en"

\* variant: the order of the Firebase handler (OpenAI, Gemini, Anthropic)
ExpressAuto_geminiFirst(ks) ==
    IF "openai" \in ks THEN "openai"
    ELSE IF "gemini" \in ks THEN "gemini"
    ELSE IF "anthropic" \in ks THEN "anthropic"
    ELSE ""

\* the provider chosen for "auto"; "" when no key is configured
ExpressAuto(ks) ==
    IF "openai" \in ks THEN "openai"
    ELSE IF "anthropic" \in ks THEN "anthropic"
    ELSE IF "gemini" \in ks THEN "gemini"
    ELSE ""

ExpressSystem(lang, specialty) ==
    [mode |-> "clinical", lang |-> lang,
     specialty |-> IF specialty # "" THEN specialty ELSE "General"]

\* `Echo: ${message}`
EchoText(v) == Str(<<"E","c","h","o",":"," ">> \o toString(v))

ExpressStatusLabel(p) ==
    CASE p = "openai" -> "OpenAI" [] p = "anthropic" -> "Anthropic" [] p = "gemini" -> "Gemini"
ExpressHttpError(p) == Error(ExpressStatusLabel(p) \o " 500: overloaded")

\* texts.join("\n"); an undefined element joins as the empty string
RECURSIVE JoinLines(_)
JoinLines(texts) ==
    IF texts = <<>> THEN <<>>
    ELSE (IF Truthy(Head(texts)) THEN Head(texts).v ELSE <<>>)
         \o (IF Len(texts) > 1 THEN <<"\n">> ELSE <<>>) \o JoinLines(Tail(texts))

\* the text an adapter of server.js returns for a 2xx reply
ExpressAdapterText(p, payload) ==
    IF IsUndef(payload) THEN <<>>
    ELSE CASE p = "openai" -> Trim(payload.v)
           [] p = "anthropic" ->
                Trim(JoinLines([i \in 1..Len(payload.v) |-> payload.v[i].text]))
           [] p = "gemini" -> Trim(JoinLines(payload.v))

\* variant: the catch block answers 200, as the Firebase handler does
ExpressErrorResponse_200(e) ==
    [status |-> 200, body |-> [error |-> "Upstream error", details |-> e.message]]

\* the response of the catch block
ExpressErrorResponse(e) ==
    [status |-> 500, body |-> [error |-> "Upstream error", details |-> e.message]]
ExpressSuccessResponse(txt, p) ==
    [status |-> 200, body |-> [text |-> Str(txt), provider |-> p]]
EchoResponse(v, p) ==
    [status |-> 200, body |-> [text |-> EchoText(v), provider |-> p]]

----------------------------------------------------------------------------
(* Decisions of the guidance enhancer (src/ai_enhance.js) *)

\* slice(0, 6000): the longest base put into the prompt
ClampLen == 6000

\* String(v); of the arrays only the empty one occurs
String(v) == IF v.t = "array" THEN <<>> ELSE v.v

\* a base one character longer than the clamp; its last character differs
LongBase == [i \in 1..(ClampLen + 1) |-> IF i <= ClampLen THEN "e" ELSE "D"]

BaseValues ==
    {Undefined, Str(<<>>), Str(<<"D","e">>), Str(LongBase), [t |-> "array", v |-> <<>>]}
TopicValues ==
    {Undefined, Str(<<>>),
     Str(<<"d","i","a","b","e","t","e","s">>), Str(<<"D","i","a","b","e","t","e","s">>),
     Str(<<"a","s","t","h","m","a">>), Str(<<"a","s","t","h","m","a"," ">>),
     Str(<<"f","l","u">>)}
\* event.body: absent, not JSON, the JSON null, or a JSON object
EventBodies ==
    {Undefined, [t |-> "malformed"], Null}
    \cup [t : {"json"}, base : BaseValues, topic : TopicValues,
          lang : {Undefined, Word("es")}]
Events == [httpMethod : {"POST", "GET"}, body : EventBodies]

\* the providers in the order of the three blocks
EnhanceProviders == <<"openai", "claude", "gemini">>
Range(q) == {q[i] : i \in 1..Len(q)}

\* JSON.parse(event.body || "{}") and the destructuring throw
ParseThrows(e) == e.body.t \in {"malformed", "null"}
ParseError(e) ==
    IF e.body.t = "malformed"
    THEN [t |-> "error", name |-> "SyntaxError", message |-> "Unexpected end of JSON input"]
    ELSE TypeError("Cannot destructure property 'base' of 'JSON.parse(...)' as it is null.")
\* const { base, topic, lang } = ...
BaseOf(e) == IF e.body.t = "json" THEN e.body.base ELSE Undefined
TopicOf(e) == IF e.body.t = "json" THEN e.body.topic ELSE Undefined
LangOf(e) == IF e.body.t = "json" THEN e.body.lang ELSE Undefined

\* !base || !topic
MissingBaseTopic(base, topic) == ~Truthy(base) \/ ~Truthy(topic)

AllowList ==
    {<<"h","y","p","e","r","t","e","n","s","i","o","n">>,
     <<"c","h","o","l","e","s","t","e","r","o","l">>,
     <<"a","s","t","h","m","a">>,
     <<"d","i","a","b","e","t","e","s">>}
\* [...].includes(String(topic).toLowerCase())
safe(topic) == toLowerCase(String(topic)) \in AllowList

\* String(base).slice(0, 6000)
baseClamped(base) ==
    LET str == String(base)
    IN SubSeq(str, 1, IF Len(str) < ClampLen THEN Len(str) ELSE ClampLen)
\* (lang === "es") ? "es" : "en"
langHint(lang) == IF lang = Word("es") THEN "es" ELSE "en"
\* the parts of the prompt that depend on the request
Prompt(base, topic, lang) ==
    [topic |-> String(topic), lang |-> langHint(lang), base |-> baseClamped(base)]

\* variant: the Claude and Gemini blocks are not guarded
BlockSkipped_never(p, enh) == FALSE

\* if (!enhanced) around the Claude and the Gemini block
BlockSkipped(p, enh) == p # "openai" /\ Truthy(enh)

\* process.env.<KEY> of a block is falsy
EnhanceKeyMissing(p, ks) == p \notin ks

\* the position after the block of provider p
AfterBlock(p) ==
    CASE p = "openai" -> "claude" [] p = "claude" -> "gemini" [] p = "gemini" -> "finish"

\* what a 2xx reply may hold where each block looks for text
EnhancePayloads(p) ==
    CASE p = "openai" -> {Undefined, Str(<<>>), Str(<<" ">>), Str(<<"o","k">>)}
      [] p = "claude" -> ClaudePayloads \cup {Str(<<"y","e","s">>)}
      [] p = "gemini" -> GeminiPayloads

\* the value of enhanced after a block has read a 2xx reply
EnhancedAfter(p, payload, enh) ==
    CASE p = "openai" -> payload
      [] p = "claude" ->
            IF payload.t = "blocks"
            THEN Str(Trim(JoinLines([i \in 1..Len(payload.v) |-> payload.v[i].text])))
            ELSE IF payload.t = "string" THEN payload
            ELSE enh
      [] p = "gemini" ->
            IF IsUndef(payload) THEN Undefined ELSE Str(Trim(JoinLines(payload.v)))

\* new Error(`<Provider> HTTP ${r.status}`)
EnhanceHttpError(p) ==
    Error((CASE p = "openai" -> "OpenAI" [] p = "claude" -> "Claude" [] p = "gemini" -> "Gemini")
          \o " HTTP 500")

\* json(status, obj), before JSON.stringify
Json(status, obj) == [status |-> status, body |-> obj]
\* if (!enhanced) enhanced = baseClamped
FinalEnhanced(enh, base) == IF Truthy(enh) THEN enh ELSE Str(baseClamped(base))

----------------------------------------------------------------------------
(* The request *)

Init ==
    /\ variant \in Variants
    /\ body \in Bodies
    /\ keys \in SUBSET Providers
    /\ pc = "start"
    /\ message = <<>>
    /\ targetLang = ""
    /\ translateIntent = FALSE
    /\ translateTarget = ""
    /\ system = Null
    /\ tryOrder = <<>>
    /\ idx = 1
    /\ text = <<>>
    /\ used = Null
    /\ lastErr = Null
    /\ provider = ""
    /\ calls = <<>>
    /\ res = <<>>
    /\ event = Null
    /\ enhanced = Null

Respond(r) == res' = Append(res, r) /\ pc' = "done"

\* exports.chat of src/chat.js, from its entry to the for-loop
ChatReceive ==
    /\ pc = "start" /\ variant = "firebase"
    /\ message' = MessageOf(body)
    /\ IF message' = <<>>
       THEN /\ Respond(ValidationResponse("message required"))
            /\ UNCHANGED <<targetLang, system, tryOrder>>
       ELSE /\ targetLang' = ChatTargetLang(body.lang, message')
            /\ IF ProviderPrefThrows(body)
               THEN /\ Respond(ErrorResponse(NotAFunction))
                    /\ UNCHANGED <<system, tryOrder>>
               ELSE /\ system' = buildDirective(targetLang', SpecialtyOf(body))
                    /\ tryOrder' = TryOrder(ProviderPref(body), keys)
                    /\ pc' = "loop"
                    /\ UNCHANGED res
    /\ UNCHANGED <<input, enhanced, translateIntent, translateTarget, idx, text, used, lastErr,
                   provider, calls>>

\* one iteration of the for-loop, up to its await or its catch
ChatTry ==
    /\ pc = "loop" /\ variant \in {"firebase", "translate"}
    /\ idx <= Len(tryOrder)
    /\ LET p == tryOrder[idx]
       IN IF p \in Providers
          THEN IF KeyMissing(p, keys)
               THEN /\ lastErr' = LastErrAfter(lastErr, MissingKeyError(p))
                    /\ idx' = AfterFailure(idx, tryOrder)
                    /\ UNCHANGED <<pc, calls>>
               ELSE /\ calls' = Append(calls, [provider |-> p, pos |-> idx,
                                               system |-> system, userMsg |-> message,
                                               fetch |-> TRUE, state |-> "inflight",
                                               value |-> Null])
                    /\ pc' = "await"
                    /\ UNCHANGED <<idx, lastErr>>
          ELSE /\ idx' = AfterFailure(idx, tryOrder)
               /\ UNCHANGED <<pc, calls, lastErr>>
    /\ UNCHANGED <<input, enhanced, message, langVars, tryOrder, text, used, provider, res>>

Settle(state, value) ==
    [calls EXCEPT ![Len(calls)] = [@ EXCEPT !.state = state, !.value = value]]

\* the awaited adapter returns: text and used are set and the loop is left
ChatAdapterReturns ==
    /\ pc = "await" /\ variant \in {"firebase", "translate"}
    /\ \E payload \in Payloads(tryOrder[idx]) :
        LET txt == AdapterText(tryOrder[idx], payload)
        IN /\ text' = txt
           /\ calls' = Settle("returned", Str(txt))
    /\ used' = Word(tryOrder[idx])
    /\ idx' = AfterReturn(idx, tryOrder)
    /\ pc' = "loop"
    /\ UNCHANGED <<input, enhanced, message, langVars, tryOrder, lastErr, provider, res>>

\* the awaited adapter throws (reply not 2xx, or fetch rejected): caught, next provider
ChatAdapterThrows ==
    /\ pc = "await" /\ variant \in {"firebase", "translate"}
    /\ \E e \in {HttpError(tryOrder[idx]), NetworkError} :
        /\ lastErr' = LastErrAfter(lastErr, e)
        /\ calls' = Settle("threw", e)
    /\ used' = UsedAfterThrow(used, tryOrder[idx])
    /\ idx' = AfterFailure(idx, tryOrder)
    /\ pc' = "loop"
    /\ UNCHANGED <<input, enhanced, message, langVars, tryOrder, text, provider, res>>

\* after the for-loop of src/chat.js: the fallback or the success response
ChatRespond ==
    /\ pc = "loop" /\ variant = "firebase"
    /\ idx > Len(tryOrder)
    /\ IF NoneSucceeded(used, text)
       THEN Respond(FallbackResponse(targetLang, lastErr))
       ELSE Respond(ChatSuccessResponse(text, used.w, targetLang))
    /\ UNCHANGED <<input, enhanced, message, langVars, loopVars, provider, calls>>

\* exports.chat of src/server.cjs, from its entry to the for-loop
TranslateReceive ==
    /\ pc = "start" /\ variant = "translate"
    /\ message' = MessageOf(body)
    /\ IF message' = <<>>
       THEN /\ Respond(ValidationResponse("message required"))
            /\ UNCHANGED <<langVars, tryOrder>>
       ELSE /\ translateIntent' = TranslateIntent(message')
            /\ targetLang' = TranslateTargetLang(body.lang, message')
            /\ translateTarget' = TranslateTarget(body.lang, message', translateIntent')
            /\ system' = TranslateSystem(translateIntent', translateTarget', targetLang',
                                         SpecialtyOf(body))
            /\ IF ProviderPrefThrows(body)
               THEN /\ Respond(ErrorResponse(NotAFunction))
                    /\ UNCHANGED tryOrder
               ELSE /\ tryOrder' = TryOrder(ProviderPref(body), keys)
                    /\ pc' = "loop"
                    /\ UNCHANGED res
    /\ UNCHANGED <<input, enhanced, idx, text, used, lastErr, provider, calls>>

\* after the for-loop of src/server.cjs: the fallback or the success response
TranslateRespond ==
    /\ pc = "loop" /\ variant = "translate"
    /\ idx > Len(tryOrder)
    /\ IF NoneSucceeded(used, text)
       THEN Respond(FallbackResponse(targetLang, lastErr))
       ELSE Respond(TranslateSuccessResponse(text, used.w, translateIntent,
                                             translateTarget, targetLang))
    /\ UNCHANGED <<input, enhanced, message, langVars, loopVars, provider, calls>>

\* app.post("/chat") of src/server.js, from its entry to the adapter's fetch
ExpressReceive ==
    /\ pc = "start" /\ variant = "express"
    /\ IF ExpressMessageInvalid(body)
       THEN /\ Respond(ValidationResponse("Missing \"message\""))
            /\ UNCHANGED <<message, targetLang, system, provider, calls>>
       ELSE /\ message' = body.message.v
            /\ IF ProviderPrefThrows(body)
               THEN /\ Respond(ExpressErrorResponse(NotAFunction))
                    /\ UNCHANGED <<targetLang, system, provider, calls>>
               ELSE LET pref == ProviderPref(body)
                        chosen == IF pref = "auto" THEN ExpressAuto(keys) ELSE pref
                    IN /\ targetLang' = ExpressLang(body)
                       /\ provider' = IF chosen = "" THEN pref ELSE chosen
                       /\ IF chosen = ""
                          THEN /\ Respond(EchoResponse(body.message, "render-test"))
                               /\ UNCHANGED <<system, calls>>
                          ELSE IF chosen \notin Providers
                          THEN /\ Respond(ExpressErrorResponse(
                                      Error("Unknown provider: " \o chosen)))
                               /\ UNCHANGED <<system, calls>>
                          ELSE IF KeyMissing(chosen, keys)
                          THEN /\ Respond(ExpressErrorResponse(MissingKeyError(chosen)))
                               /\ calls' = Append(calls,
                                      [provider |-> chosen, pos |-> 1, system |-> Null,
                                       userMsg |-> message', fetch |-> FALSE,
                                       state |-> "threw",
                                       value |-> MissingKeyError(chosen)])
                               /\ UNCHANGED system
                          ELSE /\ system' = ExpressSystem(targetLang',
                                      IF Truthy(body.specialty) THEN body.specialty.w ELSE "")
                               /\ calls' = Append(calls,
                                      [provider |-> chosen, pos |-> 1, system |-> system',
                                       userMsg |-> message', fetch |-> TRUE,
                                       state |-> "inflight", value |-> Null])
                               /\ pc' = "await"
                               /\ UNCHANGED res
    /\ UNCHANGED <<input, enhanced, translateIntent, translateTarget, loopVars>>

\* the awaited adapter of src/server.js returns: 200 with its text
ExpressAdapterReturns ==
    /\ pc = "await" /\ variant = "express"
    /\ \E payload \in Payloads(provider) :
        LET txt == ExpressAdapterText(provider, payload)
        IN /\ text' = txt
           /\ calls' = Settle("returned", Str(txt))
           /\ Respond(ExpressSuccessResponse(txt, provider))
    /\ UNCHANGED <<input, enhanced, message, langVars, tryOrder, idx, used, lastErr, provider>>

\* the awaited adapter of src/server.js throws: the catch block answers
ExpressAdapterThrows ==
    /\ pc = "await" /\ variant = "express"
    /\ \E e \in {ExpressHttpError(provider), NetworkError} :
        /\ calls' = Settle("threw", e)
        /\ Respond(ExpressErrorResponse(e))
    /\ UNCHANGED <<input, enhanced, message, langVars, loopVars, provider>>

\* app.post("/chat") of the echo server
EchoChat ==
    /\ pc = "start" /\ variant = "echo"
    /\ IF ~Truthy(body.message)
       THEN Respond(ValidationResponse("missing message"))
       ELSE Respond(EchoResponse(body.message, "local-test"))
    /\ UNCHANGED <<input, enhanced, message, langVars, loopVars, provider, calls>>

Next ==
    \/ ChatReceive
    \/ ChatTry
    \/ ChatAdapterReturns
    \/ ChatAdapterThrows
    \/ ChatRespond
    \/ TranslateReceive
    \/ TranslateRespond
    \/ ExpressReceive
    \/ ExpressAdapterReturns
    \/ ExpressAdapterThrows
    \/ EchoChat

Spec == Init /\ [][Next]_vars

\* the event loop runs every continuation that is ready, and every awaited
\* adapter call settles: it returns or it throws
Fairness ==
    /\ WF_vars(ChatReceive)
    /\ WF_vars(ChatTry)
    /\ WF_vars(ChatRespond)
    /\ WF_vars(ChatAdapterReturns \/ ChatAdapterThrows)

\* the Firebase chat handler of src/chat.js alone, under that fairness
ChatInit == Init /\ variant = "firebase"
ChatNext ==
    \/ ChatReceive
    \/ ChatTry
    \/ ChatAdapterReturns
    \/ ChatAdapterThrows
    \/ ChatRespond
LiveSpec == ChatInit /\ [][ChatNext]_vars /\ Fairness

----------------------------------------------------------------------------
(* The guidance enhancer (src/ai_enhance.js) *)

EnhanceInit ==
    /\ variant = "enhance"
    /\ event \in Events
    /\ keys \in SUBSET Range(EnhanceProviders)
    /\ enhanced = Null
    /\ body = Null
    /\ pc = "start"
    /\ message = <<>>
    /\ targetLang = ""
    /\ translateIntent = FALSE
    /\ translateTarget = ""
    /\ system = Null
    /\ tryOrder = <<>>
    /\ idx = 1
    /\ text = <<>>
    /\ used = Null
    /\ lastErr = Null
    /\ provider = ""
    /\ calls = <<>>
    /\ res = <<>>

\* handler, from its entry to let enhanced = null
EnhanceReceive ==
    /\ pc = "start" /\ variant = "enhance"
    /\ IF event.httpMethod # "POST"
       THEN Respond(Json(405, [error |-> "Method not allowed"]))
       ELSE IF ParseThrows(event)
       THEN Respond(Json(500, [error |-> ParseError(event).message]))
       ELSE IF MissingBaseTopic(BaseOf(event), TopicOf(event))
       THEN Respond(Json(400, [error |-> "Missing base/topic"]))
       ELSE IF ~safe(TopicOf(event))
       THEN Respond(Json(200, [enhanced |-> BaseOf(event)]))
       ELSE pc' = "openai" /\ UNCHANGED res
    /\ enhanced' = Null
    /\ UNCHANGED <<input, chatVars, calls>>

\* one of the three blocks, from its guard to its fetch
EnhanceBlock ==
    /\ pc \in Range(EnhanceProviders) /\ variant = "enhance"
    /\ IF BlockSkipped(pc, enhanced) \/ EnhanceKeyMissing(pc, keys)
       THEN pc' = AfterBlock(pc) /\ UNCHANGED calls
       ELSE /\ calls' = Append(calls,
                   [provider |-> pc, state |-> "inflight", value |-> Null,
                    prompt |-> Prompt(BaseOf(event), TopicOf(event), LangOf(event))])
            /\ pc' = "await"
    /\ UNCHANGED <<input, chatVars, enhanced, res>>

\* the awaited fetch answers 2xx: the block reads the text
EnhanceFetchReturns ==
    /\ pc = "await" /\ variant = "enhance"
    /\ LET p == calls[Len(calls)].provider
       IN /\ \E payload \in EnhancePayloads(p) :
                /\ enhanced' = EnhancedAfter(p, payload, enhanced)
                /\ calls' = Settle("returned", enhanced')
          /\ pc' = AfterBlock(p)
    /\ UNCHANGED <<input, chatVars, res>>

\* the awaited fetch fails or answers non-2xx: the block's catch falls through
EnhanceFetchThrows ==
    /\ pc = "await" /\ variant = "enhance"
    /\ LET p == calls[Len(calls)].provider
       IN /\ \E e \in {EnhanceHttpError(p), NetworkError} : calls' = Settle("threw", e)
          /\ pc' = AfterBlock(p)
    /\ UNCHANGED <<input, chatVars, enhanced, res>>

\* if (!enhanced) enhanced = baseClamped; return json(200, { enhanced })
EnhanceRespond ==
    /\ pc = "finish" /\ variant = "enhance"
    /\ enhanced' = FinalEnhanced(enhanced, BaseOf(event))
    /\ Respond(Json(200, [enhanced |-> enhanced']))
    /\ UNCHANGED <<input, chatVars, calls>>

EnhanceNext ==
    \/ EnhanceReceive
    \/ EnhanceBlock
    \/ EnhanceFetchReturns
    \/ EnhanceFetchThrows
    \/ EnhanceRespond

EnhanceSpec == EnhanceInit /\ [][EnhanceNext]_vars

----------------------------------------------------------------------------
(* Vocabulary of the properties *)

Done == pc = "done"
Answered == Done /\ Len(res) = 1
Reply == res[1].body

\* the POST carries a non-empty string as its message
NonEmptyMessage == body.message.t = "string" /\ body.message.v # <<>>
\* the POST carries no message, or the empty string
NoMessage == IsUndef(body.message) \/ body.message = Str(<<>>)

Invoked == [i \in 1..Len(calls) |-> calls[i].provider]
Returned == {i \in 1..Len(calls) : calls[i].state = "returned"}
Threw == {i \in 1..Len(calls) : calls[i].state = "threw"}
InFlight == {i \in 1..Len(calls) : calls[i].state = "inflight"}
IsPrefix(a, b) == Len(a) <= Len(b) /\ SubSeq(b, 1, Len(a)) = a

\* the configured providers in the order OpenAI, Gemini, Anthropic
ConfiguredInOrder ==
    SelectSeq(<<"openai", "gemini", "anthropic">>, LAMBDA p : p \in keys)

PrefersAuto == body.provider \in {Undefined, Word("auto")}
PrefersOne == body.provider \in {Word("openai"), Word("anthropic"), Word("gemini")}

----------------------------------------------------------------------------
(* Properties *)

\* C1: in the Firebase chat handler, a POST with a non-empty message, no key
\* configured and prefer.provider among auto/openai/anthropic/gemini invokes no
\* adapter and is answered with provider = "fallback".
C1_NoKeyNoAdapter ==
    ( /\ variant = "firebase" /\ NonEmptyMessage /\ keys = {}
      /\ (PrefersOne \/ body.provider = Word("auto")) )
    => /\ calls = <<>>
       /\ Done => Answered /\ Reply.provider = "fallback"

C1_Witness ==
    /\ variant = "firebase" /\ NonEmptyMessage /\ keys = {}
    /\ body.provider = Word("openai")
    /\ Answered /\ Reply.provider = "fallback" /\ calls = <<>>
    /\ lastErr = MissingKeyError("openai")

\* C2: in the Firebase chat handler with prefer.provider absent or "auto" and at
\* least one key, adapters are invoked in the order OpenAI, Gemini, Anthropic
\* restricted to the configured providers; the response carries the text and the
\* identifier of the first adapter that returned, and no error of an earlier one.
C2_AutoOrder ==
    (variant = "firebase" /\ NonEmptyMessage /\ PrefersAuto /\ keys # {})
    => /\ IsPrefix(Invoked, ConfiguredInOrder)
       /\ \A i \in Returned : \A j \in 1..(i - 1) : j \in Threw
       /\ Done =>
            /\ Answered
            /\ IF Returned = {}
               THEN Invoked = ConfiguredInOrder /\ Reply.provider = "fallback"
               ELSE \E i \in Returned :
                      /\ Reply.provider = calls[i].provider
                      /\ Reply.text = calls[i].value
                      /\ "error" \notin DOMAIN Reply
       /\ (Done /\ keys = Providers /\ Returned = {3})
            => Invoked = <<"openai", "gemini", "anthropic">> /\ Reply.provider = "anthropic"

C2_Witness ==
    /\ variant = "firebase" /\ NonEmptyMessage /\ PrefersAuto /\ keys = Providers
    /\ Answered /\ Threw = {1, 2} /\ Returned = {3}
    /\ Invoked = <<"openai", "gemini", "anthropic">>
    /\ Reply.provider = "anthropic" /\ Reply.text = Str(<<"h","i">>)

\* C3: in the Firebase chat handler, when prefer.provider names openai, anthropic
\* or gemini, only that provider's adapter is ever invoked, at most once; if its
\* key is absent or its adapter fails the response is the fallback result.
C3_ExplicitOnly ==
    (variant = "firebase" /\ NonEmptyMessage /\ PrefersOne)
    => /\ Len(calls) <= 1
       /\ \A i \in 1..Len(calls) : calls[i].provider = body.provider.w
       /\ (body.provider.w \notin keys) => calls = <<>>
       /\ (Done /\ Returned = {}) => Answered /\ Reply.provider = "fallback"

C3_Witness ==
    /\ variant = "firebase" /\ NonEmptyMessage
    /\ body.provider = Word("anthropic") /\ keys = Providers
    /\ Answered /\ Invoked = <<"anthropic">> /\ Threw = {1}
    /\ Reply.provider = "fallback"

\* the Language Detector's answer for the message of the request
Detected == IF isSpanish(message) THEN "es" ELSE "en"
ExplicitLang == body.lang \in {Word("en"), Word("es")}

\* C4 as stated: in the chat handlers the target language is prefer.lang
\* whenever prefer.lang is "en" or "es", whatever the message.
C4_ExplicitLangWins ==
    (variant \in {"firebase", "translate"} /\ NonEmptyMessage /\ pc # "start"
        /\ ExplicitLang)
    => targetLang = body.lang.w

\* C4 as amended: the translate-capable handler takes an explicit en or es as
\* the target language; the Firebase chat handler takes an explicit es, but an
\* explicit en only for a message the detector does not classify as Spanish
\* (else es); with prefer.lang unset both take the detector's answer.
C4_LangRouting ==
    (variant \in {"firebase", "translate"} /\ NonEmptyMessage /\ pc # "start")
    => /\ (variant = "translate" /\ ExplicitLang) => targetLang = body.lang.w
       /\ (variant = "firebase" /\ body.lang = Word("es")) => targetLang = "es"
       /\ (variant = "firebase" /\ body.lang = Word("en")) => targetLang = Detected
       /\ IsUndef(body.lang) => targetLang = Detected

C4_Witness ==
    /\ variant = "firebase" /\ NonEmptyMessage /\ body.lang = Word("en")
    /\ isSpanish(message) /\ ~hasAccent(message)
    /\ Answered /\ Reply.provider \in Providers /\ Reply.lang = "es"

\* C5 as stated: every result of the Firebase chat handler for a POST with a
\* non-empty message carries a language field that is "en" or "es".
C5_EveryResultHasLang ==
    (variant \in {"firebase", "translate"} /\ NonEmptyMessage /\ Answered)
    => "lang" \in DOMAIN Reply /\ Reply.lang \in {"en", "es"}

\* C5 as amended: every success result (provider openai, anthropic or gemini)
\* carries a language field that is "en" or "es"; the fallback result and the
\* error result carry no language field.
C5_SuccessHasLang ==
    (variant \in {"firebase", "translate"} /\ NonEmptyMessage /\ Answered)
    => IF Reply.provider \in Providers
       THEN "lang" \in DOMAIN Reply /\ Reply.lang \in {"en", "es"}
       ELSE Reply.provider \in {"fallback", "error"} /\ "lang" \notin DOMAIN Reply

C5_Witness ==
    /\ variant = "firebase" /\ NonEmptyMessage /\ body.lang = Word("fr")
    /\ Answered /\ Reply.provider \in Providers /\ Reply.lang = "en"

\* C6: in the Firebase chat handler every POST with a non-empty message is
\* answered once, with status 200 and a provider field among openai, anthropic,
\* gemini, fallback, error, whatever the adapters and prefer.provider do.
C6_Always200 ==
    (variant = "firebase" /\ NonEmptyMessage /\ Done)
    => /\ Answered
       /\ res[1].status = 200
       /\ Reply.provider \in Providers \cup {"fallback", "error"}

C6_Witness ==
    /\ variant = "firebase" /\ NonEmptyMessage /\ body.provider = Num(7)
    /\ Answered /\ res[1].status = 200 /\ Reply.provider = "error"

\* the Express server's request failed after validation
ExpressFailed ==
    \/ Threw # {}
    \/ body.provider.t = "number"
    \/ body.provider = Word("mistral")

\* C7 as stated: the Express server answers every POST /chat with a non-empty
\* string message with status 200, adapter failures included; only a missing
\* or malformed message gives another status (400).
C7_ExpressAlways200 ==
    (variant = "express" /\ Answered)
    => /\ NonEmptyMessage => res[1].status = 200
       /\ res[1].status # 200 => res[1].status = 400 /\ ~NonEmptyMessage

\* C7 as amended: the Express server answers a POST /chat with a non-empty
\* string message with 200 when the selected adapter returns or when the
\* provider is auto and no key is configured, and with 500 when the adapter
\* fails (missing key, non-2xx, network error) or prefer.provider is no known
\* provider name; a missing or malformed message gives 400.
C7_ExpressStatus ==
    (variant = "express" /\ Answered)
    => res[1].status = IF ~NonEmptyMessage THEN 400
                       ELSE IF ExpressFailed THEN 500 ELSE 200

C7_Witness ==
    /\ variant = "express" /\ NonEmptyMessage /\ Answered
    /\ Threw = {1} /\ calls[1].fetch /\ res[1].status = 500

\* C8: in every chat handler a POST whose message is missing or the empty
\* string is answered with status 400, and no adapter is invoked and no
\* outbound call made for it.
C8_NoMessage400 ==
    NoMessage
    => /\ calls = <<>>
       /\ pc \in {"start", "done"}
       /\ Done => Answered /\ res[1].status = 400

C8_Witness ==
    /\ variant = "express" /\ body.message = Str(<<>>) /\ keys = Providers
    /\ Answered /\ res[1].status = 400 /\ calls = <<>>

\* C9: in the Firebase chat handler at most one adapter call is in flight, the
\* handler waits while it is, the adapter at the next position of the try-order
\* is started only after the previous one failed, and none after one returned.
C9_Sequential ==
    (variant = "firebase")
    => /\ Cardinality(InFlight) <= 1
       /\ InFlight # {} => pc = "await"
       /\ \A i \in 2..Len(calls) :
            (i - 1) \in Threw /\ calls[i].pos = calls[i - 1].pos + 1
       /\ \A i \in Returned : i = Len(calls)

C9_Witness ==
    /\ variant = "firebase" /\ Len(calls) = 3
    /\ Threw = {1, 2} /\ InFlight = {3} /\ pc = "await"

\* C10: in the Firebase chat handler a response whose provider is openai,
\* anthropic or gemini carries the text that provider's adapter returned in
\* this request; when no adapter returned, provider is fallback or error.
C10_ProviderProducedText ==
    (variant = "firebase" /\ Answered /\ "provider" \in DOMAIN Reply)
    => /\ Reply.provider \in Providers =>
            \E i \in Returned :
                /\ calls[i].provider = Reply.provider
                /\ calls[i].fetch
                /\ Reply.text = calls[i].value
       /\ Returned = {} => Reply.provider \in {"fallback", "error"}

C10_Witness ==
    /\ variant = "firebase" /\ Answered /\ Threw = {1} /\ Returned = {2}
    /\ Reply.provider = "gemini" /\ Reply.text = Str(<<"a","b">>)

\* the message of the error thrown for a provider without a key
MissingText(p) ==
    CASE p = "openai" -> "OPENAI_API_KEY missing"
      [] p = "anthropic" -> "ANTHROPIC_API_KEY missing"
      [] p = "gemini" -> "GEMINI_API_KEY missing"

\* C11: in every chat variant no outbound call goes to a provider without a key;
\* an attempt on such a provider fails with "<KEY> missing" before any fetch, on
\* the auto path (no key at all) and for an explicit prefer.provider alike.
C11_NoKeyNoFetch ==
    /\ \A i \in 1..Len(calls) : calls[i].fetch => calls[i].provider \in keys
    /\ ( /\ variant \in {"firebase", "translate"} /\ NonEmptyMessage
         /\ PrefersOne /\ body.provider.w \notin keys )
       => /\ calls = <<>>
          /\ Done => Answered /\ Reply.error = "Error: " \o MissingText(body.provider.w)
    /\ ( /\ variant \in {"firebase", "translate"} /\ NonEmptyMessage
         /\ PrefersAuto /\ keys = {} )
       => /\ calls = <<>>
          /\ Done => Answered /\ Reply.error = "Error: " \o MissingText("anthropic")
    /\ ( /\ variant = "express" /\ NonEmptyMessage
         /\ PrefersOne /\ body.provider.w \notin keys )
       => /\ \A i \in 1..Len(calls) : ~calls[i].fetch
          /\ pc # "await"
          /\ Done => Answered /\ Reply.details = MissingText(body.provider.w)

C11_Witness ==
    /\ variant = "express" /\ NonEmptyMessage
    /\ body.provider = Word("gemini") /\ keys = {"openai"}
    /\ Answered /\ res[1].status = 500
    /\ Reply.details = "GEMINI_API_KEY missing"
    /\ Len(calls) = 1 /\ ~calls[1].fetch

\* the providers of the try-order that the loop has a branch for
Attempted == SelectSeq(tryOrder, LAMBDA p : p \in Providers)
\* the string form of the error of the last provider attempted, "" if none
ExpectedLastError ==
    IF Attempted = <<>> THEN ""
    ELSE LET p == Attempted[Len(Attempted)]
         IN IF p \notin keys THEN "Error: " \o MissingText(p)
            ELSE LET e == calls[Len(calls)].value IN e.name \o ": " \o e.message

\* C12: in the Firebase chat handler, when no provider of the try-order
\* succeeds, the response has status 200, provider "fallback", the apology in
\* the target language (Spanish iff it is es) and the string form of the error
\* of the last provider attempted, or "" if no error was recorded.
C12_FallbackResult ==
    (variant = "firebase" /\ NonEmptyMessage /\ Answered /\ Returned = {}
        /\ body.provider.t # "number")
    => /\ res[1].status = 200
       /\ Reply.provider = "fallback"
       /\ Reply.text = Word(IF targetLang = "es"
            THEN "No pude contactar a los servicios de IA en este momento. Intente de nuevo o toque 'Inicio' para ver contenido de referencia."
            ELSE "I couldn't reach any AI providers right now. Please try again or tap Home to view reference content.")
       /\ Reply.error = ExpectedLastError

C12_Witness ==
    /\ variant = "firebase" /\ NonEmptyMessage /\ keys = Providers /\ PrefersAuto
    /\ Answered /\ Threw = {1, 2, 3} /\ targetLang = "es"
    /\ calls[1].value = NetworkError
    /\ Reply.provider = "fallback" /\ Reply.error = "Error: Claude 500: overloaded"

\* C13: in the Firebase chat handler an adapter that returns the empty string
\* counts as a success: no later provider is invoked and the response carries
\* that provider's identifier with text "".
C13_EmptyTextIsSuccess ==
    (variant = "firebase")
    => \A i \in Returned :
         calls[i].value = Str(<<>>)
         => /\ i = Len(calls)
            /\ pc # "await"
            /\ Done => /\ Answered
                       /\ Reply.provider = calls[i].provider
                       /\ Reply.text = Str(<<>>)

C13_Witness ==
    /\ variant = "firebase" /\ keys = Providers /\ PrefersAuto
    /\ Answered /\ Invoked = <<"openai">> /\ calls[1].value = Str(<<>>)
    /\ Reply.provider = "openai" /\ Reply.text = Str(<<>>)

\* the message of the request matches the translate-intent pattern
AsksTranslation == TranslateIntent(body.message.v)
Opposite(lang) == IF lang = "es" THEN "en" ELSE "es"
\* every adapter invocation so far got a directive of this mode
DirectiveMode(mode) == \A i \in 1..Len(calls) : calls[i].system.mode = mode

\* C14 as stated: in the translate-capable variant a message matching the
\* translate-intent pattern gets the translator-only directive (any other the
\* educational one), the translation target is the opposite of the language
\* detected for the message, and a successful response's lang is that target.
C14_TranslateFlips ==
    (variant = "translate" /\ NonEmptyMessage /\ pc # "start")
    => /\ DirectiveMode(IF AsksTranslation THEN "translator" ELSE "educational")
       /\ AsksTranslation =>
            /\ translateTarget = Opposite(Detected)
            /\ \A i \in 1..Len(calls) : calls[i].system.lang = translateTarget
            /\ (Answered /\ Reply.provider \in Providers) => Reply.lang = translateTarget

\* C14 as amended: as stated, except that the translation target is prefer.lang
\* when prefer.lang is "en" or "es", and the opposite of the detected language
\* only otherwise.
C14_TranslateTarget ==
    (variant = "translate" /\ NonEmptyMessage /\ pc # "start")
    => /\ DirectiveMode(IF AsksTranslation THEN "translator" ELSE "educational")
       /\ AsksTranslation =>
            /\ translateTarget = IF ExplicitLang THEN body.lang.w ELSE Opposite(Detected)
            /\ \A i \in 1..Len(calls) : calls[i].system.lang = translateTarget
            /\ (Answered /\ Reply.provider \in Providers)
                 => Reply.lang = translateTarget /\ Reply.mode = "translate"
       /\ (~AsksTranslation /\ Answered /\ Reply.provider \in Providers)
            => Reply.lang = targetLang /\ Reply.mode = "chat"

C14_Witness ==
    /\ variant = "translate" /\ body.lang = Word("es")
    /\ body.message = Str(<<"D","e","f","i","n","i","r"," ","l","a"," ","t","o","s">>)
    /\ Answered /\ Reply.provider \in Providers
    /\ calls[Len(calls)].system = [mode |-> "translator", lang |-> "es"]
    /\ Reply.lang = "es" /\ Reply.mode = "translate"

NoRepeat(seq) == \A i, j \in 1..Len(seq) : seq[i] = seq[j] => i = j

\* C15: for every POST to the Firebase chat handler, if every adapter call
\* settles, the handler eventually sends its response, and only one; each
\* provider's adapter is invoked at most once, so there are at most as many
\* outbound calls as the try-order is long, and at most 3.
C15_OneResponse ==
    /\ (variant = "firebase") ~> (variant = "firebase" /\ Answered)
    /\ [](variant = "firebase" =>
            /\ Len(res) <= 1
            /\ Done => Len(res) = 1
            /\ NoRepeat(Invoked)
            /\ Len(calls) <= Len(tryOrder)
            /\ Len(calls) <= 3)

C15_Witness ==
    /\ variant = "firebase" /\ NonEmptyMessage /\ Answered
    /\ Len(calls) = 3 /\ Len(tryOrder) = 3 /\ NoRepeat(Invoked)
    /\ \A i \in 1..3 : calls[i].fetch

\* the first configured provider in the order OpenAI, Anthropic, Gemini
FirstConfigured ==
    Head(SelectSeq(<<"openai", "anthropic", "gemini">>, LAMBDA p : p \in keys))

\* C16: in the Express server, a POST with a non-empty message and
\* prefer.provider absent or "auto" invokes exactly one adapter, that of the
\* first configured provider in the order OpenAI, Anthropic, Gemini, and no
\* other even when it fails (the failure is answered with status 500); with no
\* key configured it invokes no adapter and is answered 200 with the text
\* "Echo: <message>" and provider "render-test".
C16_ExpressAuto ==
    (variant = "express" /\ NonEmptyMessage /\ PrefersAuto /\ pc # "start")
    => IF keys = {}
       THEN /\ calls = <<>>
            /\ Answered
            /\ res[1].status = 200
            /\ Reply = [text |-> Str(<<"E","c","h","o",":"," ">> \o body.message.v),
                        provider |-> "render-test"]
       ELSE /\ Invoked = <<FirstConfigured>>
            /\ calls[1].fetch
            /\ Done => /\ Answered
                       /\ 1 \in Returned =>
                            /\ res[1].status = 200
                            /\ Reply.provider = FirstConfigured
                            /\ Reply.text = calls[1].value
                       /\ 1 \in Threw =>
                            /\ res[1].status = 500
                            /\ Reply.error = "Upstream error"

C16_Witness ==
    /\ variant = "express" /\ NonEmptyMessage /\ PrefersAuto
    /\ keys = {"anthropic", "gemini"}
    /\ Answered /\ Invoked = <<"anthropic">> /\ Threw = {1}
    /\ res[1].status = 500

\* the POST of the enhancer carries a non-empty string as base and as topic
EnhancePost ==
    /\ variant = "enhance" /\ event.httpMethod = "POST" /\ event.body.t = "json"
    /\ event.body.base.t = "string" /\ event.body.base.v # <<>>
    /\ event.body.topic.t = "string" /\ event.body.topic.v # <<>>
\* the topic is on the allow-list, whatever its case
TopicAllowed ==
    \E a \in AllowList :
        /\ Len(a) = Len(event.body.topic.v)
        /\ \A i \in 1..Len(a) : event.body.topic.v[i] \in {a[i], IF a[i] = "d" THEN "D" ELSE a[i]}
\* position of a provider in the order OpenAI, Claude, Gemini
Rank(p) == CHOOSE i \in 1..3 : EnhanceProviders[i] = p
\* the calls that answered with a non-empty text
Yielded == {i \in Returned : calls[i].value.t = "string" /\ calls[i].value.v # <<>>}
Truncated(str) == [i \in 1..(IF Len(str) < 6000 THEN Len(str) ELSE 6000) |-> str[i]]

\* C17: in the ai_enhance handler, for a POST whose base and topic are non-empty
\* strings: a topic outside the allow-list (compared in lower case) calls no
\* provider and is answered 200 with enhanced = base unchanged; otherwise the
\* providers are called in the order OpenAI, Claude, Gemini, each only with its
\* key present and only after every earlier call failed or gave no text, and
\* every provider so eligible is called; the answer is 200 with enhanced = the
\* first non-empty text obtained, or base cut to 6000 characters when there is
\* none, and enhanced is never empty.
C17_Enhance ==
    (EnhancePost /\ pc # "start") =>
        IF ~TopicAllowed
        THEN /\ calls = <<>>
             /\ Answered
             /\ res[1] = [status |-> 200, body |-> [enhanced |-> event.body.base]]
        ELSE /\ \A i \in 1..Len(calls) :
                    /\ calls[i].provider \in keys
                    /\ \A j \in 1..(i - 1) :
                          /\ Rank(calls[j].provider) < Rank(calls[i].provider)
                          /\ j \in Threw \cup (Returned \ Yielded)
             /\ Done =>
                  /\ Answered
                  /\ res[1].status = 200
                  /\ \A p \in keys :
                        \/ \E i \in 1..Len(calls) : calls[i].provider = p
                        \/ \E i \in Yielded : Rank(calls[i].provider) < Rank(p)
                  /\ Reply.enhanced =
                        IF Yielded # {}
                        THEN calls[CHOOSE i \in Yielded : TRUE].value
                        ELSE Str(Truncated(event.body.base.v))
                  /\ Cardinality(Yielded) <= 1
                  /\ Reply.enhanced.t = "string" /\ Reply.enhanced.v # <<>>

C17_Witness ==
    /\ EnhancePost /\ TopicAllowed /\ Answered
    /\ event.body.topic.v[1] = "D"
    /\ Len(event.body.base.v) = 6001
    /\ Invoked = <<"openai", "claude", "gemini">>
    /\ 1 \in Threw /\ 2 \in Returned /\ 3 \in Returned /\ Yielded = {}
    /\ res[1].status = 200
    /\ Len(Reply.enhanced.v) = 6000

====
